---------------------------- MODULE Spec2Model ----------------------------
(***************************************************************************)
(* A model of domreducer's HtmlReducer (src/reducer.py): a document tree   *)
(* that is parsed once and then mutated in place by named stages, run      *)
(* one by one (method chaining) or as a pipeline by reduce(order).         *)
(*                                                                         *)
(* A string is a sequence of chunks: single characters and, to keep the    *)
(* values short, a few whole words (ChunkLen gives their lengths), so that *)
(* strip, split, lower, join and len are computed as Python computes them. *)
(* A node of the tree is a record; its id is the identity of the Python    *)
(* object, which the stages need because they iterate over a list of nodes *)
(* collected before they start to mutate the tree.                         *)
(***************************************************************************)
EXTENDS Integers, Sequences, FiniteSets, TLC

(***************************************************************************)
(* Python string operations.                                               *)
(***************************************************************************)
IsSpace(c) == c \in {" ", "\n"}

RECURSIVE lstrip(_)
lstrip(s) == IF s # <<>> /\ IsSpace(Head(s)) THEN lstrip(Tail(s)) ELSE s

RECURSIVE rstrip(_)
rstrip(s) ==
    IF s # <<>> /\ IsSpace(s[Len(s)]) THEN rstrip(SubSeq(s, 1, Len(s) - 1)) ELSE s

strip(s) == rstrip(lstrip(s))

LowerChar(c) ==
    CASE c = "A" -> "a" [] c = "B" -> "b"
      [] c = "DISPLAY" -> "display" [] c = "NONE" -> "none"
      [] OTHER -> c

\* The number of characters a chunk stands for.
ChunkLen(c) ==
    CASE c \in {"display", "DISPLAY"} -> 7
      [] c \in {"none", "NONE", "true"} -> 4
      [] c \in {"table", "block"} -> 5
      [] c = "table-row" -> 9
      [] c \in {"table-cell", "data:image"} -> 10
      [] c = "<1600 characters>" -> 1600
      [] OTHER -> 1

RECURSIVE len(_)
len(s) == IF s = <<>> THEN 0 ELSE ChunkLen(Head(s)) + len(Tail(s))

lower(s) == [i \in 1..Len(s) |-> LowerChar(s[i])]

RECURSIVE WordLen(_)
WordLen(s) == IF s = <<>> \/ IsSpace(Head(s)) THEN 0 ELSE 1 + WordLen(Tail(s))

\* str.split() without arguments: the maximal runs of non-whitespace.
RECURSIVE split(_)
split(s) ==
    LET t == lstrip(s)
    IN  IF t = <<>> THEN <<>>
        ELSE LET n == WordLen(t)
             IN  <<SubSeq(t, 1, n)>> \o split(SubSeq(t, n + 1, Len(t)))

\* sep.join(parts)
RECURSIVE join(_, _)
join(sep, parts) ==
    IF parts = <<>> THEN <<>>
    ELSE IF Len(parts) = 1 THEN parts[1]
    ELSE parts[1] \o sep \o join(sep, Tail(parts))

\* re.sub(r"\s+", " ", s)
RECURSIVE collapse_ws(_)
collapse_ws(s) ==
    IF s = <<>> THEN <<>>
    ELSE IF IsSpace(Head(s)) THEN <<" ">> \o collapse_ws(lstrip(s))
    ELSE <<Head(s)>> \o collapse_ws(Tail(s))

\* " ".join(s.split())
squeeze(s) == join(<<" ">>, split(s))

(***************************************************************************)
(* The document tree (bs4's Tag, NavigableString and Comment).             *)
(***************************************************************************)
NoAttrs == <<>>

Elem(tag, attrs, kids) ==
    [id |-> <<>>, kind |-> "elem", tag |-> tag, attrs |-> attrs, kids |-> kids, text |-> <<>>]

Text(s) ==
    [id |-> <<>>, kind |-> "text", tag |-> "", attrs |-> NoAttrs, kids |-> <<>>, text |-> s]

Cmt(s) ==
    [id |-> <<>>, kind |-> "comment", tag |-> "", attrs |-> NoAttrs, kids |-> <<>>, text |-> s]

\* The BeautifulSoup object itself: the root of the tree.
Document(kids) ==
    [id |-> <<>>, kind |-> "doc", tag |-> "[document]", attrs |-> NoAttrs, kids |-> kids, text |-> <<>>]

\* What a lookup gives for an object that is no longer in the tree.
Detached ==
    [id |-> <<0>>, kind |-> "detached", tag |-> "", attrs |-> NoAttrs, kids |-> <<>>, text |-> <<>>]

IsElem(n) == n.kind = "elem"

has_attr(n, a) == a \in DOMAIN n.attrs

\* tag.get(a, default)
get(n, a, default) == IF a \in DOMAIN n.attrs THEN n.attrs[a] ELSE default

\* Object identity: every node gets the path it was created at.
RECURSIVE AssignIds(_, _)
AssignIds(n, path) ==
    [n EXCEPT !.id = path,
              !.kids = [i \in 1..Len(n.kids) |-> AssignIds(n.kids[i], Append(path, i))]]

\* The tree without its object identities: what the serializer sees.
RECURSIVE Shape(_)
Shape(n) ==
    [n EXCEPT !.id = <<>>, !.kids = [i \in 1..Len(n.kids) |-> Shape(n.kids[i])]]

\* Tag.descendants: every node below, in document order.
RECURSIVE descendants(_)
descendants(kids) ==
    IF kids = <<>> THEN <<>>
    ELSE <<Head(kids)>> \o descendants(Head(kids).kids) \o descendants(Tail(kids))

\* find_all(True): every tag below n, in document order.
find_all_tags(n) == SelectSeq(descendants(n.kids), IsElem)

\* find_all([names]): the tags below n with one of the names.
find_all(n, names) ==
    SelectSeq(descendants(n.kids), LAMBDA d : IsElem(d) /\ d.tag \in names)

\* find_all(True, recursive=False)
children_tags(n) == SelectSeq(n.kids, IsElem)

Ids(nodes) == [i \in 1..Len(nodes) |-> nodes[i].id]

\* The object with this identity as it is now in the tree, or Detached.
Lookup(tree, id) ==
    LET hit == SelectSeq(descendants(tree.kids), LAMBDA d : d.id = id)
    IN  IF hit = <<>> THEN Detached ELSE hit[1]

InTree(tree, id) == Lookup(tree, id).kind # "detached"

\* The tree with the object `id` replaced, where it stands in its parent, by
\* the nodes `new` (none: extract/decompose; its children: unwrap).
RECURSIVE ReplaceKids(_, _, _)
ReplaceKids(kids, id, new) ==
    IF kids = <<>> THEN <<>>
    ELSE LET h == Head(kids)
         IN  (IF h.id = id THEN new
              ELSE <<[h EXCEPT !.kids = ReplaceKids(h.kids, id, new)]>>)
             \o ReplaceKids(Tail(kids), id, new)

Replace(tree, id, new) == [tree EXCEPT !.kids = ReplaceKids(tree.kids, id, new)]

\* The tree with the object `id` replaced by `f` of it.
RECURSIVE UpdateKids(_, _, _)
UpdateKids(kids, id, node) ==
    [i \in 1..Len(kids) |->
        IF kids[i].id = id THEN node
        ELSE [kids[i] EXCEPT !.kids = UpdateKids(kids[i].kids, id, node)]]

Update(tree, id, node) == [tree EXCEPT !.kids = UpdateKids(tree.kids, id, node)]

\* Tag._all_strings: the text nodes below (comments are not of the default
\* string types), in document order.
RECURSIVE all_strings(_)
all_strings(kids) ==
    IF kids = <<>> THEN <<>>
    ELSE LET h == Head(kids)
         IN  (IF h.kind = "text" THEN <<h.text>>
              ELSE IF h.kind = "elem" THEN all_strings(h.kids)
              ELSE <<>>)
             \o all_strings(Tail(kids))

\* Tag.get_text(separator, strip=...)
get_text(n, sep, stripped) ==
    LET raw == all_strings(n.kids)
        cut == [i \in 1..Len(raw) |-> strip(raw[i])]
    IN  IF stripped THEN join(sep, SelectSeq(cut, LAMBDA s : s # <<>>))
        ELSE join(sep, raw)

\* BeautifulSoup(markup, "lxml"): a fragment is put into html > body; every
\* node of the new tree is a new object, whose identities start at `at`.
BeautifulSoup(markup, at) ==
    AssignIds(
        Document(IF Len(markup) = 1 /\ markup[1].kind = "elem" /\ markup[1].tag = "html"
                 THEN markup
                 ELSE <<Elem("html", NoAttrs, <<Elem("body", NoAttrs, markup)>>)>>),
        at)

(***************************************************************************)
(* Stages.  Each takes the tree and gives the tree it leaves behind.  A    *)
(* loop "for x in list(find_all(...))" is a recursion over the identities  *)
(* collected before the loop, each looked up in the tree as it is by then. *)
(***************************************************************************)
\* The end of a loop over `ids`.  (Reading the tree here makes TLC evaluate
\* it before the next round, not all rounds nested at the end.)
Done(tree, ids) == ids = <<>> \/ tree.kind = "None"

RECURSIVE RemoveAll(_, _)
RemoveAll(tree, ids) ==
    IF Done(tree, ids) THEN tree ELSE RemoveAll(Replace(tree, Head(ids), <<>>), Tail(ids))

NonStructuralTags == {"script", "noscript", "style", "iframe", "meta", "link"}

strip_out_non_structural_nodes(tree) ==
    LET comments == SelectSeq(descendants(tree.kids), LAMBDA d : d.kind = "comment")
        t1 == RemoveAll(tree, Ids(comments))
    IN  RemoveAll(t1, Ids(find_all(t1, NonStructuralTags)))

\* re.compile(r"display\s*:\s*<word>", re.I).search(s); `words` are the
\* chunks that begin with <word>.
RECURSIVE css_value_in(_, _, _)
css_value_in(s, colon_seen, words) ==
    IF s = <<>> THEN FALSE
    ELSE IF IsSpace(Head(s)) THEN css_value_in(Tail(s), colon_seen, words)
    ELSE IF ~colon_seen THEN Head(s) = ":" /\ css_value_in(Tail(s), TRUE, words)
    ELSE LowerChar(Head(s)) \in words

css_display_is(s, words) ==
    \E i \in 1..Len(s) :
        /\ LowerChar(s[i]) = "display"
        /\ css_value_in(SubSeq(s, i + 1, Len(s)), FALSE, words)

css_hidden(s) == css_display_is(s, {"none"})

hidden_attr(tag) ==
    \/ has_attr(tag, "hidden")
    \/ has_attr(tag, "aria-hidden") /\ tag.attrs["aria-hidden"] = <<"true">>
    \/ has_attr(tag, "style") /\ css_hidden(tag.attrs["style"])

\* IsHiddenLeaf without "and not tag.find_all(True)".
IsHiddenLeafAnyChildren(tag) == hidden_attr(tag)

\* keep container if it has children
IsHiddenLeaf(tag) == hidden_attr(tag) /\ find_all_tags(tag) = <<>>

RECURSIVE DropHiddenLeaves(_, _)
DropHiddenLeaves(tree, ids) ==
    IF Done(tree, ids) THEN tree
    ELSE LET tag == Lookup(tree, Head(ids))
         IN  DropHiddenLeaves(
                 IF IsElem(tag) /\ IsHiddenLeaf(tag) THEN Replace(tree, tag.id, <<>>) ELSE tree,
                 Tail(ids))

InlineContainers == {"span", "b", "i", "u"}

RECURSIVE DropEmptyInline(_, _)
DropEmptyInline(tree, ids) ==
    IF Done(tree, ids) THEN tree
    ELSE LET tag == Lookup(tree, Head(ids))
         IN  DropEmptyInline(
                 IF IsElem(tag) /\ tag.kids = <<>> /\ tag.tag \in InlineContainers
                 THEN Replace(tree, tag.id, <<>>) ELSE tree,
                 Tail(ids))

strip_out_non_visual_nodes(tree) ==
    LET t1 == DropHiddenLeaves(tree, Ids(find_all_tags(tree)))
    IN  DropEmptyInline(t1, Ids(find_all_tags(t1)))

ALLOWED_ATTRS == {"id", "class", "href", "src", "alt", "title", "role"}

MaxClassTokens == 6

\* U+2026, one character
Ellipsis == <<"...">>

\* SimplifyTag with ">= 6" for "> 6".
SimplifyTagFromSix(tag) ==
    LET kept == [a \in (DOMAIN tag.attrs) \cap ALLOWED_ATTRS |-> tag.attrs[a]]
    IN  [tag EXCEPT !.attrs =
            IF "class" \in DOMAIN kept /\ Len(kept["class"]) >= MaxClassTokens
            THEN [kept EXCEPT !["class"] = Append(SubSeq(kept["class"], 1, MaxClassTokens), Ellipsis)]
            ELSE kept]

SimplifyTag(tag) ==
    LET kept == [a \in (DOMAIN tag.attrs) \cap ALLOWED_ATTRS |-> tag.attrs[a]]
    IN  [tag EXCEPT !.attrs =
            IF "class" \in DOMAIN kept /\ Len(kept["class"]) > MaxClassTokens
            THEN [kept EXCEPT !["class"] = Append(SubSeq(kept["class"], 1, MaxClassTokens), Ellipsis)]
            ELSE kept]

RECURSIVE SimplifyLoop(_, _)
SimplifyLoop(tree, ids) ==
    IF Done(tree, ids) THEN tree
    ELSE SimplifyLoop(Update(tree, Head(ids), SimplifyTag(Lookup(tree, Head(ids)))), Tail(ids))

simplify_attributes(tree) == SimplifyLoop(tree, Ids(find_all_tags(tree)))

StructuralContainers == {"div", "section", "article", "span"}

\* Collapsible without "not tag.attrs".
CollapsibleWithAttrs(tag) ==
    /\ IsElem(tag)
    /\ Len(children_tags(tag)) = 1
    /\ tag.tag \in StructuralContainers

Collapsible(tag) ==
    /\ IsElem(tag)
    /\ Len(children_tags(tag)) = 1
    /\ DOMAIN tag.attrs = {}
    /\ tag.tag \in StructuralContainers

\* The while loop: unwrap, then go on with the only child.
RECURSIVE CollapseChain(_, _)
CollapseChain(tree, id) ==
    LET tag == Lookup(tree, id)
    IN  IF Collapsible(tag)
        THEN CollapseChain(Replace(tree, id, tag.kids), children_tags(tag)[1].id)
        ELSE tree

RECURSIVE CollapseLoop(_, _)
CollapseLoop(tree, ids) ==
    IF Done(tree, ids) THEN tree ELSE CollapseLoop(CollapseChain(tree, Head(ids)), Tail(ids))

collapse_deeply_nested_container_with_one_child(tree) ==
    CollapseLoop(tree, Ids(find_all_tags(tree)))

text_fingerprint(nav) == collapse_ws(lower(get_text(nav, <<>>, TRUE)))

\* hashlib.md5(...).hexdigest(): equal digests for equal texts, and no
\* collisions among the texts of the model.
md5(s) == <<"md5", s>>

\* `stale`: bs4 leaves the behaviour of a decomposed tag undefined; a tag of
\* the list that went with a decomposed ancestor reads as empty (what bs4
\* does: decompose() empties it) or as the text it had.
RECURSIVE PruneLoop(_, _, _, _, _)
PruneLoop(tree, ids, seen_hashes, before, stale) ==
    IF Done(tree, ids) THEN tree
    ELSE LET nav == Lookup(tree, Head(ids))
             fp == IF IsElem(nav) THEN text_fingerprint(nav)
                   ELSE IF stale THEN text_fingerprint(Lookup(before, Head(ids)))
                   ELSE <<>>
             h == md5(fp)
         IN  IF h \in seen_hashes
             THEN PruneLoop(Replace(tree, Head(ids), <<>>), Tail(ids), seen_hashes, before, stale)
             ELSE PruneLoop(tree, Tail(ids), seen_hashes \cup {h}, before, stale)

NavTags == {"nav", "ul", "ol"}

prune_repetitive_and_boilerplate_navigation_items(tree, stale) ==
    PruneLoop(tree, Ids(find_all(tree, NavTags)), {}, tree, stale)

\* _SVG_PLACEHOLDER / _IMG_PLACEHOLDER, formatted and parsed: the nodes that
\* replace_with() puts into the tree are the children of the new document,
\* that is the html element lxml wraps the snippet in.
Placeholder(tag, w, h, at) ==
    BeautifulSoup(
        <<Elem(tag, ("data-placeholder" :> <<"1">>) @@ ("width" :> w) @@ ("height" :> h), <<>>)>>,
        at).kids

RECURSIVE SvgLoop(_, _)
SvgLoop(tree, ids) ==
    IF Done(tree, ids) THEN tree
    ELSE LET svg == Lookup(tree, Head(ids))
         IN  SvgLoop(
                 IF IsElem(svg)
                 THEN Replace(tree, svg.id,
                              Placeholder("svg", get(svg, "width", <<"1", "0", "0", "%">>),
                                          get(svg, "height", <<"1", "0", "0", "%">>),
                                          Append(svg.id, 0)))
                 ELSE tree,
                 Tail(ids))

Digits == <<"0", "1", "2", "3", "4", "5", "6", "7", "8", "9">>

DigitValue(c) == CHOOSE d \in 0..9 : Digits[d + 1] = c

RECURSIVE DecimalValue(_)
DecimalValue(s) ==
    IF s = <<>> THEN 0 ELSE 10 * DecimalValue(SubSeq(s, 1, Len(s) - 1)) + DigitValue(s[Len(s)])

\* int(img.get(a, 0) or 0): ok is FALSE where int() raises ValueError.
IntAttr(img, a) ==
    LET v == strip(get(img, a, <<>>))
    IN  IF get(img, a, <<>>) = <<>> THEN [ok |-> TRUE, val |-> 0]
        ELSE IF v # <<>> /\ \A i \in 1..Len(v) : v[i] \in {Digits[d] : d \in 1..10}
        THEN [ok |-> TRUE, val |-> DecimalValue(v)]
        ELSE [ok |-> FALSE, val |-> 0]

DataUriLimit == 1500

DimSide == 512

RECURSIVE ImgLoop(_, _)
ImgLoop(tree, ids) ==
    IF Done(tree, ids) THEN [tree |-> tree, err |-> "none"]
    ELSE LET img == Lookup(tree, Head(ids))
             src == get(img, "src", <<>>)
             big_data_uri == /\ src # <<>>
                             /\ Head(src) = "data:image"
                             /\ len(src) > DataUriLimit
             width == IntAttr(img, "width")
             height == IntAttr(img, "height")
         IN  IF ~width.ok \/ ~height.ok THEN [tree |-> tree, err |-> "ValueError"]
             ELSE IF big_data_uri \/ width.val * height.val > DimSide * DimSide
             THEN ImgLoop(Replace(tree, img.id,
                                  Placeholder("img", get(img, "width", <<"a", "u", "t", "o">>),
                                              get(img, "height", <<"a", "u", "t", "o">>),
                                              Append(img.id, 0))),
                          Tail(ids))
             ELSE ImgLoop(tree, Tail(ids))

reduce_large_inline_SVGs_or_images_to_lightweight_placeholders(tree) ==
    LET t1 == SvgLoop(tree, Ids(find_all(tree, {"svg"})))
    IN  ImgLoop(t1, Ids(find_all(t1, {"img"})))

\* new_tag("pre", **{marker: "1"}) with .string set: a new tag and a new string.
Pre(marker, blob, at) ==
    AssignIds(Elem("pre", marker :> <<"1">>, <<Text(blob)>>), at)

Max(a, b) == IF a > b THEN a ELSE b

RECURSIVE max_len(_)
max_len(rows) == IF rows = <<>> THEN 0 ELSE Max(Len(Head(rows)), max_len(Tail(rows)))

\* row.extend([""] * (max_cols - len(row)))
extend(row, max_cols) == row \o [i \in 1..(max_cols - Len(row)) |-> <<>>]

md_line(row) == <<"|", " ">> \o join(<<" ", "|", " ">>, row) \o <<" ", "|">>

\* The lines of the grid: the first row, the separator, the other rows (the
\* code has two branches, for a first row with and without th; they are the
\* same).
md_lines(table_data) ==
    LET max_cols == max_len(table_data)
        rows == [i \in 1..Len(table_data) |-> extend(table_data[i], max_cols)]
        sep == [i \in 1..max_cols |-> <<"-", "-", "-">>]
    IN  <<md_line(rows[1]), md_line(sep)>> \o [i \in 1..(Len(rows) - 1) |-> md_line(rows[i + 1])]

cell_text(cell) == squeeze(get_text(cell, <<>>, TRUE))

table_data_of(rows) ==
    [i \in 1..Len(rows) |->
        LET cells == find_all(rows[i], {"th", "td"})
        IN  [j \in 1..Len(cells) |-> cell_text(cells[j])]]

RECURSIVE TableLoop(_, _)
TableLoop(tree, ids) ==
    IF Done(tree, ids) THEN tree
    ELSE LET table == Lookup(tree, Head(ids))
             rows == find_all(table, {"tr"})
             table_data == table_data_of(rows)
         IN  TableLoop(
                 IF ~IsElem(table) \/ rows = <<>> \/ table_data = <<>> THEN tree
                 ELSE Replace(tree, table.id,
                              <<Pre("data-table", join(<<"\n">>, md_lines(table_data)),
                                    Append(table.id, 0))>>),
                 Tail(ids))

\* (In the file the def line of this method stands one level too deep; it is
\* read as a method of the class, like the four converters after it.)
preserve_tables_as_markdown(tree) == TableLoop(tree, Ids(find_all(tree, {"table"})))

RECURSIVE dl_lines(_)
dl_lines(kids) ==
    IF kids = <<>> THEN <<>>
    ELSE LET child == Head(kids)
         IN  (IF IsElem(child) /\ child.tag = "dt"
              THEN <<cell_text(child) \o <<" ", " ">>>>
              ELSE IF IsElem(child) /\ child.tag = "dd"
              THEN <<<<":", " ", " ">> \o cell_text(child) \o <<" ", " ">>>>
              ELSE <<>>)
             \o dl_lines(Tail(kids))

RECURSIVE DlLoop(_, _)
DlLoop(tree, ids) ==
    IF Done(tree, ids) THEN tree
    ELSE LET dl == Lookup(tree, Head(ids))
             lines == dl_lines(dl.kids)
         IN  DlLoop(
                 IF ~IsElem(dl) \/ lines = <<>> THEN tree
                 ELSE Replace(tree, dl.id,
                              <<Pre("data-dl", rstrip(join(<<"\n">>, lines)), Append(dl.id, 0))>>),
                 Tail(ids))

preserve_deflists_as_markdown(tree) == DlLoop(tree, Ids(find_all(tree, {"dl"})))

RECURSIVE str(_)
str(n) == IF n < 10 THEN <<Digits[n + 1]>> ELSE str(n \div 10) \o <<Digits[(n % 10) + 1]>>

RECURSIVE indent(_)
indent(depth) == IF depth = 0 THEN <<>> ELSE <<" ", " ">> \o indent(depth - 1)

\* "".join(li.find_all(text=True, recursive=False)): the strings directly
\* under the item, comments among them.
RECURSIVE direct_strings(_)
direct_strings(kids) ==
    IF kids = <<>> THEN <<>>
    ELSE (IF Head(kids).kind \in {"text", "comment"} THEN Head(kids).text ELSE <<>>)
         \o direct_strings(Tail(kids))

RECURSIVE walk_items(_, _, _, _)
RECURSIVE walk_nested(_, _)
walk_list(lst, depth) ==
    walk_items(SelectSeq(lst.kids, LAMBDA k : IsElem(k) /\ k.tag = "li"), 1, lst.tag = "ol", depth)

walk_items(items, idx, is_ordered, depth) ==
    IF items = <<>> THEN <<>>
    ELSE LET li == Head(items)
             prefix == indent(depth) \o (IF is_ordered THEN str(idx) \o <<".", " ">> ELSE <<"-", " ">>)
             content == squeeze(strip(direct_strings(li.kids)))
         IN  <<prefix \o content>>
             \o walk_nested(SelectSeq(li.kids, LAMBDA k : IsElem(k) /\ k.tag \in {"ul", "ol"}), depth + 1)
             \o walk_items(Tail(items), idx + 1, is_ordered, depth)

walk_nested(lists, depth) ==
    IF lists = <<>> THEN <<>>
    ELSE walk_list(Head(lists), depth) \o walk_nested(Tail(lists), depth)

RECURSIVE ListLoop(_, _)
ListLoop(tree, ids) ==
    IF Done(tree, ids) THEN tree
    ELSE LET lst == Lookup(tree, Head(ids))
             lines == walk_list(lst, 0)
         IN  ListLoop(
                 IF ~IsElem(lst) \/ lines = <<>> THEN tree
                 ELSE Replace(tree, lst.id,
                              <<Pre("data-list", join(<<"\n">>, lines), Append(lst.id, 0))>>),
                 Tail(ids))

preserve_lists_as_markdown(tree) == ListLoop(tree, Ids(find_all(tree, {"ul", "ol"})))

figure_md(fig) ==
    LET img == find_all(fig, {"img"})[1]
        src == strip(get(img, "src", <<>>))
        alt == strip(get(img, "alt", <<>>))
        cap == find_all(fig, {"figcaption"})
        caption_text == IF cap # <<>> THEN get_text(cap[1], <<" ">>, TRUE) ELSE alt
    IN  <<"!", "[">> \o (IF caption_text = <<>> /\ alt # <<>> THEN alt ELSE caption_text)
        \o <<"]", "(">> \o src \o <<")">>

RECURSIVE FigureLoop(_, _)
FigureLoop(tree, ids) ==
    IF Done(tree, ids) THEN tree
    ELSE LET fig == Lookup(tree, Head(ids))
         IN  FigureLoop(
                 IF ~IsElem(fig) \/ find_all(fig, {"img"}) = <<>> THEN tree
                 ELSE Replace(tree, fig.id,
                              <<Pre("data-figure", figure_md(fig), Append(fig.id, 0))>>),
                 Tail(ids))

preserve_figures_as_markdown(tree) == FigureLoop(tree, Ids(find_all(tree, {"figure"})))

CssTableWords == {"table", "table-row", "table-cell"}

CssRowWords == {"table-row"}

CssCellWords == {"table-cell"}

\* has_attr("style") and <regex>.search(tag["style"] or "")
Styled(n, words) == IsElem(n) /\ has_attr(n, "style") /\ css_display_is(n.attrs["style"], words)

css_table_data(rows) ==
    [i \in 1..Len(rows) |->
        LET cells == SelectSeq(rows[i].kids, LAMBDA c : Styled(c, CssCellWords))
        IN  [j \in 1..Len(cells) |-> cell_text(cells[j])]]

RECURSIVE CssTableLoop(_, _)
CssTableLoop(tree, ids) ==
    IF Done(tree, ids) THEN tree
    ELSE LET elem == Lookup(tree, Head(ids))
             rows == SelectSeq(descendants(elem.kids), LAMBDA r : Styled(r, CssRowWords))
             table_data == css_table_data(rows)
         IN  CssTableLoop(
                 IF ~IsElem(elem) \/ rows = <<>> \/ table_data = <<>> THEN tree
                 ELSE Replace(tree, elem.id,
                              <<Pre("data-csstable", join(<<"\n">>, md_lines(table_data)),
                                    Append(elem.id, 0))>>),
                 Tail(ids))

preserve_css_tables_as_markdown(tree) ==
    CssTableLoop(tree, Ids(SelectSeq(descendants(tree.kids), LAMBDA e : Styled(e, CssTableWords))))

(***************************************************************************)
(* The reducer object.                                                     *)
(***************************************************************************)
VARIABLES
    raw_html,       \* self.raw_html: the markup, as the nodes it denotes
    dom_tree,       \* self.dom_tree: None, or the tree
    op,             \* the method that was called last
    err,            \* how that call ended: "none", or the exception raised
    steps,          \* reduce(): the list it runs, while it runs and after
    pc,             \* reduce(): the index of the next name; 0 when not running
    executed,       \* reduce(): the names it has called so far
    at_call,        \* reduce(): self.dom_tree when it was called
    total_char_len, raw_token_size,         \* the measurement before the first stage
    reduced_char_len, reduced_token_size,   \* the measurement after the last stage
    reducement_details                      \* the per-step records

vars == <<raw_html, dom_tree, op, err, steps, pc, executed, at_call,
          total_char_len, raw_token_size, reduced_char_len, reduced_token_size,
          reducement_details>>

run_vars == <<steps, pc, executed, at_call>>

metric_vars == <<total_char_len, raw_token_size, reduced_char_len, reduced_token_size,
                 reducement_details>>

None ==
    [id |-> <<>>, kind |-> "None", tag |-> "", attrs |-> NoAttrs, kids |-> <<>>, text |-> <<>>]

\* _assert_parsed: TRUE where it returns, FALSE where it raises RuntimeError.
assert_parsed(tree) == tree # None

parse_the_full_dom_into_a_dom_tree(raw) == BeautifulSoup(raw, <<>>)

Ok(tree) == [tree |-> tree, err |-> "none"]

\* self.<name>() on a reducer whose dom_tree is `tree`: the tree it leaves and
\* the exception it raises, if any.
Method(name, raw, tree, stale) ==
    IF name = "parse_the_full_dom_into_a_dom_tree" THEN Ok(parse_the_full_dom_into_a_dom_tree(raw))
    ELSE IF ~assert_parsed(tree) THEN [tree |-> tree, err |-> "RuntimeError"]
    ELSE CASE name = "to_html" -> Ok(tree)
           [] name = "strip_out_non_structural_nodes" -> Ok(strip_out_non_structural_nodes(tree))
           [] name = "strip_out_non_visual_nodes" -> Ok(strip_out_non_visual_nodes(tree))
           [] name = "simplify_attributes" -> Ok(simplify_attributes(tree))
           [] name = "collapse_deeply_nested_container_with_one_child" ->
                Ok(collapse_deeply_nested_container_with_one_child(tree))
           [] name = "prune_repetitive_and_boilerplate_navigation_items" ->
                Ok(prune_repetitive_and_boilerplate_navigation_items(tree, stale))
           [] name = "reduce_large_inline_SVGs_or_images_to_lightweight_placeholders" ->
                reduce_large_inline_SVGs_or_images_to_lightweight_placeholders(tree)
           [] name = "preserve_tables_as_markdown" -> Ok(preserve_tables_as_markdown(tree))
           [] name = "preserve_deflists_as_markdown" -> Ok(preserve_deflists_as_markdown(tree))
           [] name = "preserve_lists_as_markdown" -> Ok(preserve_lists_as_markdown(tree))
           [] name = "preserve_figures_as_markdown" -> Ok(preserve_figures_as_markdown(tree))
           [] name = "preserve_css_tables_as_markdown" -> Ok(preserve_css_tables_as_markdown(tree))

(***************************************************************************)
(* The documents the reducer is constructed with.                          *)
(***************************************************************************)
MaxChain == 2       \* depth of the generated wrapper chains
MaxClasses == 8     \* length of the generated class lists
MaxNavs == 3        \* navigation blocks in a generated document
MaxRows == 2        \* rows of a generated table
MaxCols == 2        \* cells of a generated row
MaxPlaceholders == 3    \* html elements in the tree beyond which the media stage is not run again

Hidden == "hidden" :> <<>>

DisplayNone == "style" :> <<"display", ":", "none">>

P(s) == Elem("p", NoAttrs, <<Text(s)>>)

\* Chains of wrappers: a plain div, a hidden div, a hidden span; around
\* nothing or a paragraph; with or without a hidden sibling beside the child.
WrapKinds ==
    { [tag |-> "div", attrs |-> NoAttrs], [tag |-> "div", attrs |-> Hidden],
      [tag |-> "span", attrs |-> DisplayNone] }

Siblings == { <<>>, <<Elem("i", Hidden, <<>>)>> }

RECURSIVE Chains(_)
Chains(d) ==
    IF d = 0 THEN { <<>>, <<P(<<"a">>)>> }
    ELSE LET inner == Chains(d - 1)
         IN  inner \cup { <<Elem(w.tag, w.attrs, k \o sib)>> :
                              w \in WrapKinds, k \in inner, sib \in Siblings }

\* An element with a class list of n tokens, with and without attributes
\* that are not on the allow-list.
ClassList(n) == [i \in 1..n |-> <<"c", Digits[i + 1]>>]

ClassDocs ==
    { <<Elem("a", ("class" :> ClassList(n)) @@ extra, <<Text(<<"a">>)>>)>> :
          n \in 0..MaxClasses,
          extra \in { NoAttrs,
                      ("href" :> <<"/">>) @@ ("onclick" :> <<"f">>) @@ ("data-x" :> <<"1">>) } }

\* Navigation blocks with the texts "ab", "b" and "".
Li(s) == Elem("li", NoAttrs, <<Text(s)>>)

NavKinds ==
    { Elem("ul", NoAttrs, <<Li(<<"a", "b">>)>>),
      Elem("nav", NoAttrs, <<Text(<<"a">>), Elem("ul", NoAttrs, <<Li(<<"b">>)>>)>>),
      Elem("nav", NoAttrs, <<Elem("ul", NoAttrs, <<Li(<<"b">>)>>)>>),
      Elem("ul", NoAttrs, <<>>) }

NavDocs == UNION { [1..n -> NavKinds] : n \in 1..MaxNavs }

\* Tables: up to MaxRows rows of 0..MaxCols cells, th in the first row.
Cell(i, j) == Elem(IF i = 1 THEN "th" ELSE "td", NoAttrs, <<Text(<<Digits[i + 1], Digits[j + 1]>>)>>)

Table(shape) ==
    Elem("table", NoAttrs,
         [i \in 1..Len(shape) |-> Elem("tr", NoAttrs, [j \in 1..shape[i] |-> Cell(i, j)])])

TableDocs == { <<Table(shape)>> : shape \in UNION { [1..n -> 0..MaxCols] : n \in 0..MaxRows } }

\* Images: width, height and src absent or with one of these values.
Absent == <<"<absent>">>

Opt(a, v) == IF v = Absent THEN NoAttrs ELSE a :> v

Auto == <<"a", "u", "t", "o">>

Img(w, h, src) == Elem("img", Opt("width", w) @@ Opt("height", h) @@ Opt("src", src), <<>>)

ImgDocs ==
    { <<Img(w, h, src)>> :
          w \in { Absent, <<>>, Auto, <<"1", "0", "0", "%">>, <<"6", "0", "0">>, <<" ", "9", "0">> },
          h \in { Absent, Auto, <<"6", "0", "0">> },
          src \in { Absent, <<"a", ".", "p", "n", "g">>, <<"data:image", "<1600 characters>">> } }

Svg(attrs, kids) == Elem("svg", attrs, kids)

NavHomeAbout ==
    Elem("nav", NoAttrs,
         <<Elem("ul", NoAttrs, <<Li(<<"h", "o", "m", "e">>), Li(<<"a", "b", "o", "u", "t">>)>>)>>)

StyledElem(tag, display, kids) == Elem(tag, "style" :> <<"display", ":", " ", display>>, kids)

OtherDocs ==
    { \* the sample of the module's demo
      <<Elem("html", NoAttrs,
             <<Elem("head", NoAttrs, <<Elem("style", NoAttrs, <<Text(<<".", "x">>)>>)>>),
               Elem("body", NoAttrs,
                    <<Elem("div", NoAttrs,
                           <<Elem("div", NoAttrs,
                                  <<Elem("span", ("id" :> <<"t">>) @@ DisplayNone, <<Text(<<"i">>)>>),
                                    Text(<<"\n", " ">>),
                                    Svg(("width" :> <<"8", "0", "0">>) @@ ("height" :> <<"6", "0", "0">>),
                                        <<Elem("circle", "r" :> <<"4", "0">>, <<>>)>>),
                                    NavHomeAbout, Text(<<"\n">>), NavHomeAbout>>)>>)>>)>>)>>,
      \* vector graphics
      <<Svg(NoAttrs, <<>>)>>,
      <<Svg("width" :> <<"8">>, <<Svg(NoAttrs, <<>>)>>), Img(<<"6", "0", "0">>, <<"6", "0", "0">>, Absent)>>,
      \* comments and tags without layout
      <<Elem("div", NoAttrs,
             <<Cmt(<<"c">>), Elem("script", NoAttrs, <<Text(<<"x">>)>>),
               Elem("noscript", NoAttrs, <<Elem("link", "href" :> <<"/">>, <<>>)>>), Text(<<"a">>)>>),
        Elem("meta", "charset" :> <<"u">>, <<>>)>>,
      \* aria-hidden, and a style the pattern must find in upper case
      <<Elem("div", "aria-hidden" :> <<"true">>, <<>>), Elem("div", "aria-hidden" :> <<"f">>, <<>>),
        Elem("b", "style" :> <<"c", ";", "DISPLAY", " ", ":", "\n", "NONE">>, <<Text(<<"a">>)>>),
        Elem("u", "style" :> <<"display", ":", "block">>, <<>>),
        Elem("span", NoAttrs, <<Elem("b", NoAttrs, <<>>)>>)>>,
      \* a table in a table
      <<Elem("table", NoAttrs,
             <<Elem("tr", NoAttrs,
                    <<Elem("td", NoAttrs, <<Text(<<" ", "a", "\n", "b">>), Table(<<1>>)>>)>>)>>)>>,
      \* wrappers that carry an id, or are not div; a text beside the only child
      <<Elem("div", "id" :> <<"x">>, <<Elem("span", NoAttrs, <<Elem("section", NoAttrs, <<P(<<"a">>)>>)>>)>>),
        Elem("article", NoAttrs, <<Text(<<"b">>), Elem("p", NoAttrs, <<Elem("div", NoAttrs, <<P(<<"a">>)>>)>>)>>)>>,
      \* lists with the same text but for case and whitespace
      <<Elem("ul", NoAttrs, <<Li(<<"a">>), Li(<<"b">>)>>),
        Elem("ol", NoAttrs, <<Li(<<" ", "A", "\n">>), Text(<<" ">>), Li(<<"B">>)>>),
        Elem("ul", NoAttrs, <<Li(<<"a", " ", "b">>)>>)>>,
      \* definition lists
      <<Elem("dl", NoAttrs,
             <<Elem("dt", NoAttrs, <<Text(<<"a">>)>>), Text(<<"\n">>),
               Elem("dd", NoAttrs, <<Text(<<"b", " ", " ", "c">>)>>)>>)>>,
      <<Elem("dl", NoAttrs, <<>>), Elem("dl", NoAttrs, <<Elem("dt", NoAttrs, <<>>)>>)>>,
      \* lists: ordered, nested, with a comment in an item, without items
      <<Elem("ol", NoAttrs,
             <<Elem("li", NoAttrs,
                    <<Text(<<"a", " ">>), Cmt(<<"c">>),
                      Elem("ul", NoAttrs, <<Li(<<"b">>)>>)>>),
               Li(<<"c">>)>>)>>,
      <<Elem("ul", NoAttrs, <<Elem("div", NoAttrs, <<Elem("ul", NoAttrs, <<Li(<<"a">>)>>)>>)>>)>>,
      \* figures
      <<Elem("figure", NoAttrs,
             <<Elem("img", ("src" :> <<" ", "f">>) @@ ("alt" :> <<"A">>), <<>>),
               Elem("figcaption", NoAttrs, <<Text(<<"c">>), Elem("b", NoAttrs, <<Text(<<"d">>)>>)>>)>>)>>,
      <<Elem("figure", NoAttrs, <<Elem("img", "alt" :> <<"A">>, <<>>)>>),
        Elem("figure", NoAttrs, <<Elem("figcaption", NoAttrs, <<Text(<<"c">>)>>)>>),
        Elem("figure", NoAttrs,
             <<Elem("img", "alt" :> <<"A">>, <<>>), Elem("figcaption", NoAttrs, <<>>)>>)>>,
      \* a table made of styled elements
      <<StyledElem("div", "table",
                <<StyledElem("div", "table-row",
                          <<StyledElem("span", "table-cell", <<Text(<<"a">>)>>),
                            StyledElem("span", "table-cell", <<Text(<<"b">>)>>)>>),
                  StyledElem("div", "table-row",
                          <<StyledElem("span", "table-cell", <<Text(<<"1">>)>>)>>)>>)>>,
      <<StyledElem("div", "table", <<P(<<"a">>)>>)>> }

Docs == Chains(MaxChain) \cup ClassDocs \cup NavDocs \cup TableDocs \cup ImgDocs \cup OtherDocs

(***************************************************************************)
(* Measurements.  to_html() serializes the tree; what the metrics need of  *)
(* the serialization is its length.                                        *)
(***************************************************************************)
NameLen(name) ==
    CASE name \in {"a", "p", "b", "i", "u", "r"} -> 1
      [] name \in {"ul", "ol", "li", "dl", "dt", "dd", "td", "th", "tr", "id"} -> 2
      [] name \in {"div", "nav", "svg", "img", "pre", "src", "alt"} -> 3
      [] name \in {"html", "head", "body", "span", "meta", "link", "href"} -> 4
      [] name \in {"style", "table", "class", "width"} -> 5
      [] name \in {"script", "figure", "circle", "height", "hidden"} -> 6
      [] OTHER -> 10

VoidTags == {"img", "meta", "link"}

RECURSIVE SumOver(_, _)
SumOver(f, S) ==
    IF S = {} THEN 0 ELSE LET x == CHOOSE y \in S : TRUE IN f[x] + SumOver(f, S \ {x})

\* name="value", after a space; a class list is written with spaces between.
AttrsLen(attrs) ==
    SumOver([a \in DOMAIN attrs |->
                4 + NameLen(a)
                + (IF a = "class" THEN len(join(<<" ">>, attrs[a])) ELSE len(attrs[a]))],
            DOMAIN attrs)

RECURSIVE html_len(_)
html_len(n) ==
    LET inside == SumOver([i \in 1..Len(n.kids) |-> html_len(n.kids[i])], 1..Len(n.kids))
    IN  CASE n.kind = "text" -> len(n.text)
          [] n.kind = "comment" -> 7 + len(n.text)
          [] n.kind = "elem" ->
                IF n.tag \in VoidTags THEN 3 + NameLen(n.tag) + AttrsLen(n.attrs)
                ELSE 5 + 2 * NameLen(n.tag) + AttrsLen(n.attrs) + inside
          [] OTHER -> inside

\* to_html(): the length of the string it returns.
to_html(tree) == html_len(tree)

\* The approximate token count of a text of that many characters.
token_count(chars) == (chars + 3) \div 4

\* The measurement of the document as it is: of the tree or, before it is
\* parsed, of the markup.
Measure(raw, tree) ==
    LET chars == IF tree = None THEN html_len(Document(raw)) ELSE to_html(tree)
    IN  [chars |-> chars, tokens |-> token_count(chars)]

\* The record of one step: the measurements before and after, and the delta.
ReductionStats(name, prior, now) ==
    [step |-> name,
     chars_before |-> prior.chars, chars_after |-> now.chars,
     char_delta |-> prior.chars - now.chars,
     tokens_before |-> prior.tokens, tokens_after |-> now.tokens,
     token_delta |-> prior.tokens - now.tokens]

(***************************************************************************)
(* Calls.                                                                  *)
(***************************************************************************)
MethodNames ==
    { "parse_the_full_dom_into_a_dom_tree", "to_html",
      "strip_out_non_structural_nodes", "strip_out_non_visual_nodes", "simplify_attributes",
      "collapse_deeply_nested_container_with_one_child",
      "prune_repetitive_and_boilerplate_navigation_items",
      "reduce_large_inline_SVGs_or_images_to_lightweight_placeholders",
      "preserve_tables_as_markdown", "preserve_deflists_as_markdown",
      "preserve_lists_as_markdown", "preserve_figures_as_markdown",
      "preserve_css_tables_as_markdown" }

DEFAULT_PIPE ==
    << "parse_the_full_dom_into_a_dom_tree",
       "strip_out_non_structural_nodes",
       "strip_out_non_visual_nodes",
       "simplify_attributes",
       "collapse_deeply_nested_container_with_one_child",
       "prune_repetitive_and_boilerplate_navigation_items",
       "reduce_large_inline_SVGs_or_images_to_lightweight_placeholders" >>

\* The media stage wraps every placeholder in an html element of its own, so
\* the tree can grow without end: the model stops running it at this size.
Bounded(name, tree) ==
    name = "reduce_large_inline_SVGs_or_images_to_lightweight_placeholders"
        => Len(find_all(tree, {"html"})) <= MaxPlaceholders

Init ==
    /\ raw_html \in Docs
    /\ dom_tree = None
    /\ op = "__init__"
    /\ err = "none"
    /\ steps = <<>> /\ pc = 0 /\ executed = <<>> /\ at_call = None
    /\ total_char_len = 0 /\ raw_token_size = 0
    /\ reduced_char_len = 0 /\ reduced_token_size = 0
    /\ reducement_details = <<>>

\* reducer.<name>(), called by the user of the object.  What the last
\* reduce() left in its locals is forgotten.
Call(name, stale) ==
    /\ Bounded(name, dom_tree)
    /\ LET r == Method(name, raw_html, dom_tree, stale)
       IN  dom_tree' = r.tree /\ err' = r.err
    /\ op' = name
    /\ steps' = <<>> /\ pc' = 0 /\ executed' = <<>> /\ at_call' = None
    /\ UNCHANGED <<raw_html, metric_vars>>

Parse ==
    /\ pc = 0
    /\ Call("parse_the_full_dom_into_a_dom_tree", FALSE)

ToHtml ==
    /\ pc = 0
    /\ Call("to_html", FALSE)

StripNonStructural ==
    /\ pc = 0
    /\ Call("strip_out_non_structural_nodes", FALSE)

StripNonVisual ==
    /\ pc = 0
    /\ Call("strip_out_non_visual_nodes", FALSE)

SimplifyAttributes ==
    /\ pc = 0
    /\ Call("simplify_attributes", FALSE)

Collapse ==
    /\ pc = 0
    /\ Call("collapse_deeply_nested_container_with_one_child", FALSE)

Prune ==
    /\ pc = 0
    /\ \E stale \in BOOLEAN : Call("prune_repetitive_and_boilerplate_navigation_items", stale)

MediaPlaceholders ==
    /\ pc = 0
    /\ Call("reduce_large_inline_SVGs_or_images_to_lightweight_placeholders", FALSE)

PreserveTables ==
    /\ pc = 0
    /\ Call("preserve_tables_as_markdown", FALSE)

PreserveDeflists ==
    /\ pc = 0
    /\ Call("preserve_deflists_as_markdown", FALSE)

PreserveLists ==
    /\ pc = 0
    /\ Call("preserve_lists_as_markdown", FALSE)

PreserveFigures ==
    /\ pc = 0
    /\ Call("preserve_figures_as_markdown", FALSE)

PreserveCssTables ==
    /\ pc = 0
    /\ Call("preserve_css_tables_as_markdown", FALSE)

Next ==
    \/ Parse
    \/ ToHtml
    \/ StripNonStructural
    \/ StripNonVisual
    \/ SimplifyAttributes
    \/ Collapse
    \/ Prune
    \/ MediaPlaceholders
    \/ PreserveTables
    \/ PreserveDeflists
    \/ PreserveLists
    \/ PreserveFigures
    \/ PreserveCssTables

Spec == Init /\ [][Next]_vars

(***************************************************************************)
(* reduce(order): the pipeline runner.  A call is a sequence of steps, one *)
(* per name of the list; the object is not used by anyone else meanwhile.  *)
(***************************************************************************)
MaxOrder == 3       \* length of the generated order lists

\* test_run.py's list: three of its names are no methods of the class.
EXTRA_PIPE ==
    << "parse_the_full_dom_into_a_dom_tree",
       "strip_out_non_structural_nodes",
       "strip_out_non_visual_nodes",
       "simplify_attributes",
       "strip_tailwind_utility_classes",
       "collapse_deeply_nested_container_with_one_child",
       "prune_repetitive_and_boilerplate_navigation_items",
       "preserve_tables_as_markdown",
       "drop_row_ids_inside_large_tables",
       "reduce_large_inline_SVGs_or_images_to_lightweight_placeholders",
       "minify_whitespace" >>

\* The names the generated lists are made of: the last is no method.
OrderNames ==
    { "parse_the_full_dom_into_a_dom_tree", "strip_out_non_visual_nodes", "not_a_real_stage" }

\* The arguments reduce() is called with; <<>> is None, or the empty list.
Orders ==
    {<<>>, EXTRA_PIPE, SubSeq(EXTRA_PIPE, 1, 4)}
        \cup UNION { [1..n -> OrderNames] : n \in 1..MaxOrder }

\* The documents the pipeline is run on.
PipelineDocs ==
    { d \in OtherDocs : \E n \in 1..Len(d) : d[n].tag \in {"html", "svg", "table"} }
        \cup { <<Img(Auto, Absent, Absent)>>,
               <<Elem("div", Hidden, <<Elem("span", Hidden, <<>>)>>), Table(<<2, 1>>)>> }

InitPipeline ==
    /\ raw_html \in PipelineDocs
    /\ dom_tree = None
    /\ op = "__init__"
    /\ err = "none"
    /\ steps = <<>> /\ pc = 0 /\ executed = <<>> /\ at_call = None
    /\ total_char_len = 0 /\ raw_token_size = 0
    /\ reduced_char_len = 0 /\ reduced_token_size = 0
    /\ reducement_details = <<>>

\* steps = order or self._DEFAULT_PIPE
StepsOf(order) == IF order = <<>> THEN DEFAULT_PIPE ELSE order

\* NextPc that leaves out every other name.
NextPcSkipping(list, i) == IF i + 1 < Len(list) THEN i + 2 ELSE 0

\* for name in steps: the index of the name after this one, 0 after the last.
NextPc(list, i) == IF i < Len(list) THEN i + 1 ELSE 0

\* The measurement against which the next step's delta is taken.
Prior ==
    IF reducement_details = <<>>
    THEN [chars |-> total_char_len, tokens |-> raw_token_size]
    ELSE LET last == reducement_details[Len(reducement_details)]
         IN  [chars |-> last.chars_after, tokens |-> last.tokens_after]

\* reducer.reduce(order) is called: the document is measured as it is, the
\* locals are set.
Reduce ==
    /\ pc = 0
    /\ Bounded("reduce_large_inline_SVGs_or_images_to_lightweight_placeholders", dom_tree)
    /\ LET now == Measure(raw_html, dom_tree)
       IN  /\ total_char_len' = now.chars /\ raw_token_size' = now.tokens
           /\ reduced_char_len' = now.chars /\ reduced_token_size' = now.tokens
    /\ reducement_details' = <<>>
    /\ \E order \in Orders : steps' = StepsOf(order)
    /\ pc' = 1
    /\ executed' = <<>>
    /\ at_call' = dom_tree
    /\ op' = "reduce"
    /\ err' = "none"
    /\ UNCHANGED <<raw_html, dom_tree>>

\* One round of the loop: fn = getattr(self, name); fn().  An exception
\* ends the call where it is raised.  The record of the step is what the
\* specification says of the metrics collector: reduce() in src/reducer.py
\* keeps none, and the class that test_run.py reads them from is not there.
ReduceStep ==
    /\ pc > 0
    /\ LET name == steps[pc]
       IN  IF name \notin MethodNames
           THEN /\ err' = "AttributeError"
                /\ op' = "getattr"
                /\ pc' = 0
                /\ UNCHANGED <<dom_tree, executed, metric_vars>>
           ELSE \E stale \in BOOLEAN :
                    LET r == Method(name, raw_html, dom_tree, stale)
                        now == Measure(raw_html, r.tree)
                    IN  /\ dom_tree' = r.tree
                        /\ err' = r.err
                        /\ op' = name
                        /\ executed' = Append(executed, name)
                        /\ pc' = IF r.err = "none" THEN NextPc(steps, pc) ELSE 0
                        /\ IF r.err = "none"
                           THEN /\ reducement_details' =
                                       Append(reducement_details, ReductionStats(name, Prior, now))
                                /\ reduced_char_len' = now.chars
                                /\ reduced_token_size' = now.tokens
                                /\ UNCHANGED <<total_char_len, raw_token_size>>
                           ELSE UNCHANGED metric_vars
    /\ UNCHANGED <<raw_html, steps, at_call>>

NextPipeline ==
    \/ Parse
    \/ ToHtml
    \/ Reduce
    \/ ReduceStep

SpecPipeline == InitPipeline /\ [][NextPipeline]_vars

(***************************************************************************)
(* Properties.  In an action formula the unprimed dom_tree is the tree the *)
(* call found and the primed one the tree it left; op' is the method that  *)
(* was called and err' how it ended.                                       *)
(***************************************************************************)
\* The reduction stages: the methods that start with _assert_parsed and mutate.
Stages == MethodNames \ {"parse_the_full_dom_into_a_dom_tree", "to_html"}

\* The elements of a tree.
Elements(tree) == LET all == find_all_tags(tree) IN {all[i] : i \in 1..Len(all)}

\* The tree as parse leaves it.
Parsed == parse_the_full_dom_into_a_dom_tree(raw_html)

\* reduce() has raised / has returned.
ReduceRaised == steps # <<>> /\ pc = 0 /\ err # "none"

ReduceReturned == steps # <<>> /\ pc = 0 /\ err = "none"

\* C1: when reduce(order) raises for a name that is no stage, no stage of
\* the list has been executed and dom_tree is what it was when reduce was
\* called (still unset, if it was unset), wherever the name stands in the list.
C1_FailFastUnknownStage ==
    (ReduceRaised /\ err = "AttributeError") => (executed = <<>> /\ dom_tree = at_call)

\* C2: a stage called on the unparsed document raises RuntimeError and leaves
\* dom_tree unset and raw_html as it is; the same stage called after parse
\* returns normally; and once the document is parsed it stays parsed and no
\* call raises RuntimeError.
C2_UnparsedGuard ==
    [][ /\ (dom_tree = None /\ op' \in Stages)
            => (err' = "RuntimeError" /\ dom_tree' = None /\ raw_html' = raw_html)
        /\ (op = "parse_the_full_dom_into_a_dom_tree" /\ op' \in Stages)
            => err' = "none"
        /\ (dom_tree # None)
            => (dom_tree' # None /\ err' # "RuntimeError") ]_vars

\* C3: a stage that has just returned, called again, returns and leaves the
\* tree as it is.
C3_Idempotence ==
    [][ (op \in Stages /\ err = "none" /\ op' = op)
            => (err' = "none" /\ Shape(dom_tree') = Shape(dom_tree)) ]_vars

\* C7: on a parsed document every call returns normally.
C7_Totality == (dom_tree # None) => (err = "none")

\* Explicitly hidden: the hidden attribute, aria-hidden="true", or an inline
\* style with display:none.
ExplicitlyHidden(n) == hidden_attr(n)

\* An inline container all of whose contents are hidden elements without
\* element children: the first pass of the stage empties it.
EmptiedInline(n) ==
    /\ n.tag \in {"span", "b", "i", "u"}
    /\ \A k \in 1..Len(n.kids) :
          IsElem(n.kids[k]) /\ ExplicitlyHidden(n.kids[k]) /\ children_tags(n.kids[k]) = <<>>

C5_AttributeAllowList ==
    [][ (op' = "simplify_attributes" /\ err' = "none") =>
          /\ \A n \in Elements(dom_tree') :
                DOMAIN n.attrs \subseteq {"id", "class", "href", "src", "alt", "title", "role"}
          /\ \A n \in Elements(dom_tree) :
                has_attr(n, "class") =>
                    LET before == n.attrs["class"]
                        after == get(Lookup(dom_tree', n.id), "class", <<"<absent>">>)
                    IN  IF Len(before) > 6
                        THEN after = SubSeq(before, 1, 6) \o <<Ellipsis>>
                        ELSE after = before ]_vars

\* A class list of 8 tokens was cut to 6 and the ellipsis, and attributes
\* that are not on the list were deleted.
C5_Witness ==
    /\ op = "simplify_attributes" /\ err = "none"
    /\ \E n \in Elements(Parsed) :
          /\ has_attr(n, "class") /\ Len(n.attrs["class"]) = 8 /\ has_attr(n, "onclick")
          /\ LET m == Lookup(dom_tree, n.id)
             IN  /\ Len(m.attrs["class"]) = 7 /\ m.attrs["class"][7] = Ellipsis
                 /\ DOMAIN m.attrs = {"class", "href"}

\* C6: after prune_repetitive_and_boilerplate_navigation_items, of the nav,
\* ul and ol elements with one and the same fingerprint exactly one is in the
\* tree, the first in document order: an element is still in the tree if and
\* only if no element before it had its fingerprint.
C6_FirstOfDuplicatesSurvives ==
    [][ (op' = "prune_repetitive_and_boilerplate_navigation_items" /\ err' = "none") =>
          LET navs == find_all(dom_tree, {"nav", "ul", "ol"})
          IN  \A i \in 1..Len(navs) :
                  InTree(dom_tree', navs[i].id)
                      <=> (\A j \in 1..(i - 1) :
                              text_fingerprint(navs[j]) # text_fingerprint(navs[i])) ]_vars

\* The node that holds the object `id`, and where: the document or an element.
Holder(tree, id) ==
    LET nodes == <<tree>> \o descendants(tree.kids)
        i == CHOOSE j \in 1..Len(nodes) : \E k \in 1..Len(nodes[j].kids) : nodes[j].kids[k].id = id
    IN  [id |-> nodes[i].id,
         at |-> CHOOSE k \in 1..Len(nodes[i].kids) : nodes[i].kids[k].id = id]

\* The kids of the object `id`, the document among the objects.
KidsOf(tree, id) == IF id = tree.id THEN tree.kids ELSE Lookup(tree, id).kids

\* The texts of the cells of a table, row by row.
CellTexts(table) ==
    LET rows == find_all(table, {"tr"})
    IN  [i \in 1..Len(rows) |->
            LET cells == find_all(rows[i], {"th", "td"})
            IN  [j \in 1..Len(cells) |-> cell_text(cells[j])]]

HasCells(table) == \E i \in 1..Len(CellTexts(table)) : CellTexts(table)[i] # <<>>

\* The grid of a table: its rows in order, each filled up with empty cells
\* to the length of the longest, and a separator after the first.
Grid(table) ==
    LET data == CellTexts(table)
        width == max_len(data)
        full == [i \in 1..Len(data) |-> data[i] \o [j \in 1..(width - Len(data[i])) |-> <<>>]]
        lines == [i \in 1..(Len(data) + 1) |->
                     IF i = 1 THEN full[1]
                     ELSE IF i = 2 THEN [j \in 1..width |-> <<"-", "-", "-">>]
                     ELSE full[i - 1]]
    IN  join(<<"\n">>, [i \in 1..Len(lines) |-> md_line(lines[i])])

\* C9: preserve_tables_as_markdown leaves a table without rows, or without
\* cells in its rows, as it is; any other table is out of the tree, and where
\* it stood in its parent there is one pre element, marked data-table, whose
\* text is the grid of the table: a line per row in order and a separator
\* after the first, every line with as many cells as the longest row.  (Of a
\* table inside a converted table only that it is out of the tree.)
C9_TableConversion ==
    [][ (op' = "preserve_tables_as_markdown" /\ err' = "none") =>
          LET tables == find_all(dom_tree, {"table"})
              inner == UNION { Elements(tables[i]) : i \in 1..Len(tables) }
          IN  \A i \in 1..Len(tables) :
                  LET t == tables[i]
                      h == Holder(dom_tree, t.id)
                      now == KidsOf(dom_tree', h.id)[h.at]
                  IN  IF ~HasCells(t)
                      THEN t \in inner \/ Shape(now) = Shape(t)
                      ELSE /\ ~InTree(dom_tree', t.id)
                           /\ t \in inner \/
                                 /\ now.kind = "elem" /\ now.tag = "pre"
                                 /\ DOMAIN now.attrs = {"data-table"}
                                 /\ Len(now.kids) = 1 /\ now.kids[1].kind = "text"
                                 /\ now.kids[1].text = Grid(t) ]_vars

\* A structural container without attributes that is the parent of exactly
\* one element.
SingleChildWrapper(n) ==
    /\ n.tag \in {"div", "section", "article", "span"}
    /\ DOMAIN n.attrs = {}
    /\ Cardinality({k \in 1..Len(n.kids) : n.kids[k].kind = "elem"}) = 1

\* The step records of the run, and their names.
StepNames == [i \in 1..Len(reducement_details) |-> reducement_details[i].step]

C10_CollapsePostCondition ==
    [][ (op' = "collapse_deeply_nested_container_with_one_child" /\ err' = "none") =>
          /\ \A n \in Elements(dom_tree') : ~SingleChildWrapper(n)
          /\ \A n \in Elements(dom_tree) :
                (DOMAIN n.attrs # {} \/ n.tag \notin {"div", "section", "article", "span"})
                    => InTree(dom_tree', n.id) ]_vars

\* A chain of two wrappers was unwrapped, and a wrapper with an attribute and
\* one element child is still in the tree.
C10_Witness ==
    /\ op = "collapse_deeply_nested_container_with_one_child" /\ err = "none"
    /\ \E n, c, m \in Elements(Parsed) :
          /\ SingleChildWrapper(n) /\ SingleChildWrapper(c) /\ c \in Elements(n)
          /\ ~InTree(dom_tree, n.id) /\ ~InTree(dom_tree, c.id)
          /\ DOMAIN m.attrs # {} /\ m.tag \in {"div", "span"}
          /\ Len(children_tags(m)) = 1
          /\ InTree(dom_tree, m.id)

\* C11: after prune_repetitive_and_boilerplate_navigation_items the first nav,
\* ul or ol element in document order with a given fingerprint is still in
\* the tree, with its whole subtree as it was (the lists and the text a kept
\* nav wrapped are still in it); so every fingerprint that an element had
\* before the stage is the fingerprint of an element after it.
C11_FirstOccurrenceIntact ==
    [][ (op' = "prune_repetitive_and_boilerplate_navigation_items" /\ err' = "none") =>
          LET navs == find_all(dom_tree, {"nav", "ul", "ol"})
              kept == find_all(dom_tree', {"nav", "ul", "ol"})
          IN  \A i \in 1..Len(navs) :
                  (\A j \in 1..(i - 1) : text_fingerprint(navs[j]) # text_fingerprint(navs[i]))
                      => /\ InTree(dom_tree', navs[i].id)
                         /\ Shape(Lookup(dom_tree', navs[i].id)) = Shape(navs[i])
                         /\ \E k \in 1..Len(kept) :
                               text_fingerprint(kept[k]) = text_fingerprint(navs[i]) ]_vars

=============================================================================
